---- MODULE Spec2Model ----
(***************************************************************************)
(* Model of scripts/html_comprehensive_validator.py: a driver that runs    *)
(* the external vnu checker and a regex scan for void elements written     *)
(* with a trailing "/>" over a list of files, and turns the results into   *)
(* a process exit status.                                                  *)
(*                                                                         *)
(* Text is a sequence of one-character strings.  The fixed literal parts   *)
(* of printed messages are kept as one token each.                         *)
(*                                                                         *)
(* Environment assumptions: the file system does not change during a run;  *)
(* a tool that exists at VNU_PATH can be launched (subprocess.run raises   *)
(* only CalledProcessError); print never fails.  A file that exists but    *)
(* cannot be opened or read (a directory, no permission, undecodable) is   *)
(* modelled: open()/read() raise and nothing catches it.                   *)
(***************************************************************************)
EXTENDS Integers, Sequences, FiniteSets, TLC

VARIABLES
    argv,          \* sys.argv[1:], the file arguments
    vnu_present,   \* os.path.exists(VNU_PATH)
    fs,            \* path -> [exists, readable, raw]: the files on disk
    pc,            \* position of the single thread of control
    i,             \* 1-based index of the for loop of main
    any_errors,    \* main's accumulator
    errors_found,  \* validate_file's accumulator
    vnu_errors,    \* validate_file's local: flag returned by run_vnu
    out,           \* history: everything printed, in order
    tested,        \* history: paths given to os.path.exists, in order
    calls,         \* history: invocations of run_vnu / check_trailing_slashes
    attempted,     \* history: file arguments the loop of main has taken up
    returned,      \* history: values returned by validate_file
    exit_status,   \* process exit status, -1 while running
    fn_in,         \* input of the pure function under check
    fn_pc,         \* "idle" | "ready" | "done"
    fn_ret         \* <<flag, text>> returned by the pure function

vars == <<argv, vnu_present, fs, pc, i, any_errors, errors_found, vnu_errors,
          out, tested, calls, attempted, returned, exit_status,
          fn_in, fn_pc, fn_ret>>

driverVars == <<argv, vnu_present, fs, pc, i, any_errors, errors_found,
                vnu_errors, out, tested, calls, attempted, returned,
                exit_status>>

fnVars == <<fn_in, fn_pc, fn_ret>>

-----------------------------------------------------------------------------
(* Bounds *)

MaxFiles == 3      \* longest argument list
MaxPieces == 3     \* longest file text, in fragments

-----------------------------------------------------------------------------
(* Text helpers *)

NL == "\n"
CR == "\r"

RECURSIVE Count(_, _)
\* str.count(ch) for a one-character ch
Count(s, ch) ==
    IF s = <<>> THEN 0
    ELSE (IF Head(s) = ch THEN 1 ELSE 0) + Count(Tail(s), ch)

DigitChar == <<"0", "1", "2", "3", "4", "5", "6", "7", "8", "9">>

RECURSIVE Digits(_)
\* decimal formatting of a natural number, as an f-string does it
Digits(n) ==
    IF n < 10 THEN <<DigitChar[n + 1]>>
    ELSE Digits(n \div 10) \o <<DigitChar[(n % 10) + 1]>>

RECURSIVE Join(_, _)
\* sep.join(list)
Join(list, sep) ==
    IF list = <<>> THEN <<>>
    ELSE IF Len(list) = 1 THEN list[1]
    ELSE list[1] \o sep \o Join(Tail(list), sep)

\* s has the text t at position p
HasAt(s, p, t) == p >= 1 /\ p + Len(t) - 1 <= Len(s) /\ SubSeq(s, p, p + Len(t) - 1) = t

RECURSIVE ReadText(_)
\* open(path, 'r').read(): text mode with universal newlines, "\r\n" and
\* "\r" are read as "\n"
ReadText(raw) ==
    IF raw = <<>> THEN <<>>
    ELSE IF Head(raw) = CR
         THEN IF Len(raw) >= 2 /\ raw[2] = NL
              THEN <<NL>> \o ReadText(Tail(Tail(raw)))
              ELSE <<NL>> \o ReadText(Tail(raw))
         ELSE <<Head(raw)>> \o ReadText(Tail(raw))

-----------------------------------------------------------------------------
(* run_vnu *)

\* run_vnu with the last element of the tuple dropped on failure: stderr lost
run_vnu_drops_stderr(proc) ==
    IF proc.returncode # 0
    THEN <<TRUE, proc.stdout>>
    ELSE <<FALSE, proc.stdout>>

\* proc is what the child process did: [returncode, stdout, stderr].
\* subprocess.run(..., check=True) raises CalledProcessError iff the return
\* code is not zero; the handler returns the exception's stdout + stderr.
run_vnu(proc) ==
    IF proc.returncode # 0
    THEN <<TRUE, proc.stdout \o proc.stderr>>
    ELSE <<FALSE, proc.stdout>>

-----------------------------------------------------------------------------
(* check_trailing_slashes *)

\* the list with 'br' and 'hr' left out
void_elements_short ==
    << <<"a","r","e","a">>, <<"b","a","s","e">>, <<"c","o","l">>,
       <<"e","m","b","e","d">>, <<"i","m","g">>,
       <<"i","n","p","u","t">>, <<"l","i","n","k">>, <<"m","e","t","a">>,
       <<"p","a","r","a","m">>, <<"s","o","u","r","c","e">>,
       <<"t","r","a","c","k">>, <<"w","b","r">> >>

void_elements ==
    << <<"a","r","e","a">>, <<"b","a","s","e">>, <<"b","r">>, <<"c","o","l">>,
       <<"e","m","b","e","d">>, <<"h","r">>, <<"i","m","g">>,
       <<"i","n","p","u","t">>, <<"l","i","n","k">>, <<"m","e","t","a">>,
       <<"p","a","r","a","m">>, <<"s","o","u","r","c","e">>,
       <<"t","r","a","c","k">>, <<"w","b","r">> >>

\* Where [^>]* can stop when it starts at position p: every position from p
\* up to the first ">" at or after p (or the end of the text)
ClassStops(c, p) ==
    { k \in p..(Len(c) + 1) : \A j \in p..(k - 1) : c[j] # ">" }

\* The pattern  <NAME[^>]*\/>  tried at position s for one name: the end
\* (exclusive) of the match, 0 when there is none.  [^>]* is greedy: the
\* longest stop after which "/>" follows wins.
MatchName(c, s, name) ==
    IF HasAt(c, s, <<"<">> \o name)
    THEN LET p == s + 1 + Len(name)
             ends == { k \in ClassStops(c, p) : HasAt(c, k, <<"/", ">">>) }
         IN IF ends = {} THEN 0
            ELSE (CHOOSE k \in ends : \A m \in ends : m <= k) + 2
    ELSE 0

RECURSIVE MatchAlt(_, _, _)
\* the alternation (area|base|...) tries the names in the order listed
MatchAlt(c, s, n) ==
    IF n > Len(void_elements) THEN 0
    ELSE LET end == MatchName(c, s, void_elements[n])
         IN IF end # 0 THEN end ELSE MatchAlt(c, s, n + 1)

\* pattern.match at position s: end (exclusive) or 0
MatchAt(c, s) == MatchAlt(c, s, 1)

RECURSIVE FindIter(_, _)
\* re.finditer(pattern, content) from position pos: the leftmost match, then
\* the search resumes at its end.  A match is <<start, end>>, end exclusive.
FindIter(c, pos) ==
    IF pos > Len(c) THEN <<>>
    ELSE LET end == MatchAt(c, pos)
         IN IF end # 0
            THEN << <<pos, end>> >> \o FindIter(c, end)
            ELSE FindIter(c, pos + 1)

\* match.group()
Group(c, m) == SubSeq(c, m[1], m[2] - 1)

\* content[:match.start()].count('\n') + 1
LineNumber(c, m) == Count(SubSeq(c, 1, m[1] - 1), NL) + 1

INFO_PREFIX ==
    "Info: Trailing slash on void element has no effect and interacts badly with unquoted attribute values. Line "

\* the f-string appended to output for one match
InfoMessage(c, m) ==
    <<INFO_PREFIX>> \o Digits(LineNumber(c, m)) \o <<":", " ">> \o Group(c, m)

\* check_trailing_slashes on a readable file whose bytes are raw
check_trailing_slashes(raw) ==
    LET content == ReadText(raw)
        matches == FindIter(content, 1)
        output  == [k \in 1..Len(matches) |-> InfoMessage(content, matches[k])]
    IN <<matches # <<>>, Join(output, <<NL>>)>>

-----------------------------------------------------------------------------
(* The files and child processes the runs are drawn from *)

Paths == {"a.html", "b.html"}

VNU_PATH == "~/software/nu_html_checker/vnu-runtime-image/bin/vnu"

RECURSIVE SeqsUpTo(_, _)
\* all sequences over S of length at most n
SeqsUpTo(S, n) ==
    IF n = 0 THEN {<<>>}
    ELSE LET shorter == SeqsUpTo(S, n - 1)
         IN shorter \cup { Append(q, x) : q \in { r \in shorter : Len(r) = n - 1 }, x \in S }

\* texts of the files the driver is run on: no match, one match
DriverTexts == { <<"<","p",">">>, <<"<","b","r","/",">">> }

Missing    == [exists |-> FALSE, readable |-> FALSE, raw |-> <<>>]
Unreadable == [exists |-> TRUE,  readable |-> FALSE, raw |-> <<>>]
FileStates ==
    {Missing, Unreadable} \cup { [exists |-> TRUE, readable |-> TRUE, raw |-> t] : t \in DriverTexts }

\* what a vnu child process can do in a driver run
DriverProcs ==
    { [returncode |-> 0, stdout |-> <<>>, stderr |-> <<>>],
      [returncode |-> 0, stdout |-> <<"o">>, stderr |-> <<>>],
      [returncode |-> 1, stdout |-> <<>>, stderr |-> <<"e">>] }

\* one print call
Printed(kind, path, text) == [kind |-> kind, path |-> path, text |-> text]

\* one invocation of a check on the file argument at index idx
Invocation(f, idx, flag, raised) ==
    [fn |-> f, idx |-> idx, path |-> argv[idx], flag |-> flag, raised |-> raised]

DriverIdle ==
    /\ argv = <<>>
    /\ vnu_present = FALSE
    /\ fs = [p \in Paths |-> Missing]
    /\ pc = "idle"
    /\ i = 0
    /\ any_errors = FALSE
    /\ errors_found = FALSE
    /\ vnu_errors = FALSE
    /\ out = <<>>
    /\ tested = <<>>
    /\ calls = <<>>
    /\ attempted = <<>>
    /\ returned = <<>>
    /\ exit_status = -1

FnIdle ==
    /\ fn_in = <<>>
    /\ fn_pc = "idle"
    /\ fn_ret = <<FALSE, <<>>>>

-----------------------------------------------------------------------------
(* The program: __main__, main, validate_file *)

Init ==
    /\ argv \in SeqsUpTo(Paths, MaxFiles)
    /\ vnu_present \in BOOLEAN
    /\ fs \in [Paths -> FileStates]
    /\ pc = "start"
    /\ i = 0
    /\ any_errors = FALSE
    /\ errors_found = FALSE
    /\ vnu_errors = FALSE
    /\ out = <<>>
    /\ tested = <<>>
    /\ calls = <<>>
    /\ attempted = <<>>
    /\ returned = <<>>
    /\ exit_status = -1
    /\ FnIdle

\* the guard of __main__ off by one: len(sys.argv) < 1
TooFewArgumentsOffByOne == Len(argv) + 1 < 1

\* __main__: len(sys.argv) < 2, where sys.argv is the script name and argv
TooFewArguments == Len(argv) + 1 < 2

\* __main__: too few arguments: print usage, sys.exit(1)
ScriptUsage ==
    /\ pc = "start"
    /\ TooFewArguments
    /\ out' = Append(out, Printed("usage", "", <<>>))
    /\ exit_status' = 1
    /\ pc' = "exited"
    /\ UNCHANGED <<argv, vnu_present, fs, i, any_errors, errors_found, vnu_errors,
                   tested, calls, attempted, returned>>
    /\ UNCHANGED fnVars

\* __main__: main(sys.argv[1:])
ScriptCallMain ==
    /\ pc = "start"
    /\ ~TooFewArguments
    /\ pc' = "main"
    /\ UNCHANGED <<argv, vnu_present, fs, i, any_errors, errors_found, vnu_errors,
                   out, tested, calls, attempted, returned, exit_status>>
    /\ UNCHANGED fnVars

\* main with the sys.exit(1) after the error message left out
MainVnuMissingNoExit ==
    /\ pc = "main"
    /\ ~vnu_present
    /\ tested' = Append(tested, VNU_PATH)
    /\ out' = Append(out, Printed("vnu_not_found", VNU_PATH, <<>>))
    /\ any_errors' = FALSE
    /\ i' = 1
    /\ pc' = "loop"
    /\ UNCHANGED <<argv, vnu_present, fs, errors_found, vnu_errors, calls,
                   attempted, returned, exit_status>>
    /\ UNCHANGED fnVars

\* main: the tool is not at VNU_PATH: print the error, sys.exit(1)
MainVnuMissing ==
    /\ pc = "main"
    /\ ~vnu_present
    /\ tested' = Append(tested, VNU_PATH)
    /\ out' = Append(out, Printed("vnu_not_found", VNU_PATH, <<>>))
    /\ exit_status' = 1
    /\ pc' = "exited"
    /\ UNCHANGED <<argv, vnu_present, fs, i, any_errors, errors_found, vnu_errors,
                   calls, attempted, returned>>
    /\ UNCHANGED fnVars

\* main: the tool is there: any_errors = False, enter the loop
MainBegin ==
    /\ pc = "main"
    /\ vnu_present
    /\ tested' = Append(tested, VNU_PATH)
    /\ any_errors' = FALSE
    /\ i' = 1
    /\ pc' = "loop"
    /\ UNCHANGED <<argv, vnu_present, fs, errors_found, vnu_errors, out, calls,
                   attempted, returned, exit_status>>
    /\ UNCHANGED fnVars

\* the missing-file branch with break in place of continue
LoopFileMissingBreaks ==
    /\ pc = "loop"
    /\ i <= Len(argv)
    /\ ~fs[argv[i]].exists
    /\ tested' = Append(tested, argv[i])
    /\ attempted' = Append(attempted, argv[i])
    /\ out' = Append(out, Printed("file_not_found", argv[i], <<>>))
    /\ any_errors' = TRUE
    /\ i' = Len(argv) + 1
    /\ UNCHANGED <<argv, vnu_present, fs, pc, errors_found, vnu_errors, calls,
                   returned, exit_status>>
    /\ UNCHANGED fnVars

\* the missing-file branch without any_errors = True
LoopFileMissingNoFlag ==
    /\ pc = "loop"
    /\ i <= Len(argv)
    /\ ~fs[argv[i]].exists
    /\ tested' = Append(tested, argv[i])
    /\ attempted' = Append(attempted, argv[i])
    /\ out' = Append(out, Printed("file_not_found", argv[i], <<>>))
    /\ i' = i + 1
    /\ UNCHANGED <<argv, vnu_present, fs, pc, any_errors, errors_found, vnu_errors,
                   calls, returned, exit_status>>
    /\ UNCHANGED fnVars

\* main, loop body: the file does not exist: print, any_errors = True, continue
LoopFileMissing ==
    /\ pc = "loop"
    /\ i <= Len(argv)
    /\ ~fs[argv[i]].exists
    /\ tested' = Append(tested, argv[i])
    /\ attempted' = Append(attempted, argv[i])
    /\ out' = Append(out, Printed("file_not_found", argv[i], <<>>))
    /\ any_errors' = TRUE
    /\ i' = i + 1
    /\ UNCHANGED <<argv, vnu_present, fs, pc, errors_found, vnu_errors, calls,
                   returned, exit_status>>
    /\ UNCHANGED fnVars

\* main, loop body: the file exists: validate_file is entered, prints its
\* banner and clears errors_found
LoopFileExists ==
    /\ pc = "loop"
    /\ i <= Len(argv)
    /\ fs[argv[i]].exists
    /\ tested' = Append(tested, argv[i])
    /\ attempted' = Append(attempted, argv[i])
    /\ out' = Append(out, Printed("validating", argv[i], <<>>))
    /\ errors_found' = FALSE
    /\ pc' = "vf_run_vnu"
    /\ UNCHANGED <<argv, vnu_present, fs, i, any_errors, vnu_errors, calls,
                   returned, exit_status>>
    /\ UNCHANGED fnVars

\* validate_file returning right after a failed vnu check
ValidateRunVnuEarlyExit ==
    /\ pc = "vf_run_vnu"
    /\ \E proc \in DriverProcs :
         LET r == run_vnu(proc)
         IN /\ calls' = Append(calls, Invocation("run_vnu", i, r[1], FALSE))
            /\ vnu_errors' = r[1]
            /\ out' = IF r[1]
                      THEN out \o <<Printed("vnu_header", "", <<>>),
                                    Printed("vnu_output", "", r[2])>>
                      ELSE out
            /\ errors_found' = (errors_found \/ r[1])
            /\ pc' = IF r[1] THEN "vf_return" ELSE "vf_check_slashes"
    /\ UNCHANGED <<argv, vnu_present, fs, i, any_errors, tested, attempted,
                   returned, exit_status>>
    /\ UNCHANGED fnVars

\* validate_file: vnu_errors, vnu_output = run_vnu(file_path); print the
\* section if the flag is set; errors_found |= vnu_errors
ValidateRunVnu ==
    /\ pc = "vf_run_vnu"
    /\ \E proc \in DriverProcs :
         LET r == run_vnu(proc)
         IN /\ calls' = Append(calls, Invocation("run_vnu", i, r[1], FALSE))
            /\ vnu_errors' = r[1]
            /\ out' = IF r[1]
                      THEN out \o <<Printed("vnu_header", "", <<>>),
                                    Printed("vnu_output", "", r[2])>>
                      ELSE out
            /\ errors_found' = (errors_found \/ r[1])
    /\ pc' = "vf_check_slashes"
    /\ UNCHANGED <<argv, vnu_present, fs, i, any_errors, tested, attempted,
                   returned, exit_status>>
    /\ UNCHANGED fnVars

\* validate_file: slash_errors, slash_output = check_trailing_slashes(file_path);
\* print the section if the flag is set; errors_found |= slash_errors
ValidateCheckSlashes ==
    /\ pc = "vf_check_slashes"
    /\ fs[argv[i]].readable
    /\ LET r == check_trailing_slashes(fs[argv[i]].raw)
       IN /\ calls' = Append(calls, Invocation("check_trailing_slashes", i, r[1], FALSE))
          /\ out' = IF r[1]
                    THEN out \o <<Printed("custom_header", "", <<>>),
                                  Printed("custom_output", "", r[2])>>
                    ELSE out
          /\ errors_found' = (errors_found \/ r[1])
    /\ pc' = "vf_return"
    /\ UNCHANGED <<argv, vnu_present, fs, i, any_errors, vnu_errors, tested,
                   attempted, returned, exit_status>>
    /\ UNCHANGED fnVars

\* check_trailing_slashes: open()/read() raise; neither validate_file nor
\* main nor __main__ has a handler, the interpreter ends with status 1
ValidateCheckSlashesRaises ==
    /\ pc = "vf_check_slashes"
    /\ ~fs[argv[i]].readable
    /\ calls' = Append(calls, Invocation("check_trailing_slashes", i, FALSE, TRUE))
    /\ exit_status' = 1
    /\ pc' = "raised"
    /\ UNCHANGED <<argv, vnu_present, fs, i, any_errors, errors_found, vnu_errors,
                   out, tested, attempted, returned>>
    /\ UNCHANGED fnVars

\* the fold in main written as an assignment: any_errors = validate_file(...)
ValidateReturnOverwrites ==
    /\ pc = "vf_return"
    /\ out' = IF ~errors_found
              THEN Append(out, Printed("no_issues", argv[i], <<>>))
              ELSE out
    /\ returned' = Append(returned, [idx |-> i, path |-> argv[i], value |-> errors_found])
    /\ any_errors' = errors_found
    /\ i' = i + 1
    /\ pc' = "loop"
    /\ UNCHANGED <<argv, vnu_present, fs, errors_found, vnu_errors, tested, calls,
                   attempted, exit_status>>
    /\ UNCHANGED fnVars

\* validate_file: print "No issues found" when clean, return errors_found;
\* main: any_errors |= <the value returned>, next file
ValidateReturn ==
    /\ pc = "vf_return"
    /\ out' = IF ~errors_found
              THEN Append(out, Printed("no_issues", argv[i], <<>>))
              ELSE out
    /\ returned' = Append(returned, [idx |-> i, path |-> argv[i], value |-> errors_found])
    /\ any_errors' = (any_errors \/ errors_found)
    /\ i' = i + 1
    /\ pc' = "loop"
    /\ UNCHANGED <<argv, vnu_present, fs, errors_found, vnu_errors, tested, calls,
                   attempted, exit_status>>
    /\ UNCHANGED fnVars

\* the summary with the two exit statuses exchanged
MainSummarySwapped ==
    /\ pc = "loop"
    /\ i > Len(argv)
    /\ out' = Append(out, Printed(IF any_errors THEN "summary_issues" ELSE "summary_clean",
                                  "", <<>>))
    /\ exit_status' = IF any_errors THEN 0 ELSE 1
    /\ pc' = "exited"
    /\ UNCHANGED <<argv, vnu_present, fs, i, any_errors, errors_found, vnu_errors,
                   tested, calls, attempted, returned>>
    /\ UNCHANGED fnVars

\* main, after the loop: print the summary, sys.exit(1) or sys.exit(0)
MainSummary ==
    /\ pc = "loop"
    /\ i > Len(argv)
    /\ out' = Append(out, Printed(IF any_errors THEN "summary_issues" ELSE "summary_clean",
                                  "", <<>>))
    /\ exit_status' = IF any_errors THEN 1 ELSE 0
    /\ pc' = "exited"
    /\ UNCHANGED <<argv, vnu_present, fs, i, any_errors, errors_found, vnu_errors,
                   tested, calls, attempted, returned>>
    /\ UNCHANGED fnVars

Next ==
    \/ ScriptUsage
    \/ ScriptCallMain
    \/ MainVnuMissing
    \/ MainBegin
    \/ LoopFileMissing
    \/ LoopFileExists
    \/ ValidateRunVnu
    \/ ValidateCheckSlashes
    \/ ValidateCheckSlashesRaises
    \/ ValidateReturn
    \/ MainSummary

Spec == Init /\ [][Next]_vars

-----------------------------------------------------------------------------
(* The two pure functions on their own: the input is drawn, the function   *)
(* is applied once                                                         *)

\* pieces of HTML text the scanned files are put together from
Fragments ==
    { <<"<", "b", "r">>,
      <<"<", "c", "o", "l">>,
      <<"g", "r", "o", "u", "p">>,
      <<"/", ">">>,
      <<">">>,
      <<"\n">>,
      <<"\r">>,
      <<" ">>,
      <<"<", "i", "m", "g", " ", "s", "r", "c", "=", "x", "/", ">">>,
      <<"<", "h", "r", "/", ">">> }

RECURSIVE Flatten(_)
Flatten(pieces) ==
    IF pieces = <<>> THEN <<>> ELSE Head(pieces) \o Flatten(Tail(pieces))

\* the file texts given to check_trailing_slashes
ScanTexts == { Flatten(q) : q \in SeqsUpTo(Fragments, MaxPieces) }

VnuTexts == { <<>>, <<"o">>, <<"e">>, <<"w">>, <<"e", NL, "w">> }

\* exit statuses of the child: success, failure, another failure, killed
\* by a signal
VnuProcs ==
    [returncode : {0, 1, 2, -9}, stdout : VnuTexts, stderr : VnuTexts]

InitScan ==
    /\ DriverIdle
    /\ fn_in \in ScanTexts
    /\ fn_pc = "ready"
    /\ fn_ret = <<FALSE, <<>>>>

ScanCall ==
    /\ fn_pc = "ready"
    /\ fn_ret' = check_trailing_slashes(fn_in)
    /\ fn_pc' = "done"
    /\ UNCHANGED fn_in
    /\ UNCHANGED driverVars

NextScan == ScanCall

SpecScan == InitScan /\ [][NextScan]_vars

InitVnu ==
    /\ DriverIdle
    /\ fn_in \in VnuProcs
    /\ fn_pc = "ready"
    /\ fn_ret = <<FALSE, <<>>>>

VnuCall ==
    /\ fn_pc = "ready"
    /\ fn_ret' = run_vnu(fn_in)
    /\ fn_pc' = "done"
    /\ UNCHANGED fn_in
    /\ UNCHANGED driverVars

NextVnu == VnuCall

SpecVnu == InitVnu /\ [][NextVnu]_vars

-----------------------------------------------------------------------------
(* Vocabulary of the properties *)

Finished == pc \in {"exited", "raised"}

\* some file argument does not exist
AnyMissing == \E k \in 1..Len(argv) : ~fs[argv[k]].exists

\* some file argument exists and cannot be read
AnyUnreadable == \E k \in 1..Len(argv) : fs[argv[k]].exists /\ ~fs[argv[k]].readable

\* some check that ran reported an issue
AnyReported == \E j \in 1..Len(calls) : calls[j].flag

\* a check reported an issue for one of the first n file arguments
ReportedBefore(n) == \E j \in 1..Len(calls) : calls[j].flag /\ calls[j].idx < n

\* one of the first n file arguments is missing
MissingBefore(n) == \E k \in 1..Len(argv) : k < n /\ ~fs[argv[k]].exists

\* the invocations made for the file argument at index k, in order
CallsFor(k) ==
    LET IsK(c) == c.idx = k IN SelectSeq(calls, IsK)

\* the prints of one kind for one path
PrintsOf(kind, path) ==
    { n \in 1..Len(out) : out[n].kind = kind /\ out[n].path = path }

\* the indices among the first n arguments that name the path and are missing
MissingOccurrences(path, n) ==
    { k \in 1..n : argv[k] = path /\ ~fs[path].exists }

SummaryPrinted ==
    \E n \in 1..Len(out) : out[n].kind \in {"summary_issues", "summary_clean"}

-----------------------------------------------------------------------------
(* C1 *)

-----------------------------------------------------------------------------
(* C2 *)

\* C2: with the tool absent, main prints the error and exits with status 1
\* at once: no file is tested for existence, read or given to a check, and
\* no summary is printed.
C2_VnuMissingExitsAtOnce ==
    (~vnu_present /\ Len(argv) > 0) =>
        /\ pc \in {"start", "main", "exited"}
        /\ \A n \in 1..Len(tested) : tested[n] = VNU_PATH
        /\ calls = <<>>
        /\ attempted = <<>>
        /\ ~SummaryPrinted
        /\ pc = "exited" =>
              /\ exit_status = 1
              /\ out = <<Printed("vnu_not_found", VNU_PATH, <<>>)>>
              /\ tested = <<VNU_PATH>>

C2_Witness ==
    /\ ~vnu_present
    /\ Len(argv) = MaxFiles
    /\ pc = "exited"
    /\ \A k \in 1..Len(argv) : fs[argv[k]].readable

-----------------------------------------------------------------------------
(* C3 *)

-----------------------------------------------------------------------------
(* C4 *)

-----------------------------------------------------------------------------
(* C5 *)

\* C5: run_vnu returns (True, stdout + stderr) when the tool's exit status
\* is not zero and (False, stdout) when it is zero, whatever the output.
C5_RunVnuContract ==
    fn_pc = "done" =>
        /\ fn_in.returncode # 0 => fn_ret = <<TRUE, fn_in.stdout \o fn_in.stderr>>
        /\ fn_in.returncode = 0 => fn_ret = <<FALSE, fn_in.stdout>>
        /\ fn_ret[1] = (fn_in.returncode # 0)

\* a failing child that wrote to both streams
C5_Witness ==
    /\ fn_pc = "done"
    /\ fn_in.returncode = 2
    /\ fn_in.stdout = <<"o">>
    /\ fn_in.stderr = <<"e", NL, "w">>
    /\ fn_ret = <<TRUE, <<"o", "e", NL, "w">>>>

-----------------------------------------------------------------------------
(* C6 *)

\* characters that end a tag name in an HTML start tag
TagNameEnd == {" ", "\t", NL, "/"}

\* the text c holds a void element written with a trailing "/>": a start
\* tag whose tag name is one of the void element names (the name ends
\* where white space or "/" follows) and that closes with "/>"
HasVoidElementWithTrailingSlash(c) ==
    \E s \in 1..Len(c) : \E n \in 1..Len(void_elements) :
        LET p == s + 1 + Len(void_elements[n])
        IN /\ HasAt(c, s, <<"<">> \o void_elements[n])
           /\ p <= Len(c)
           /\ c[p] \in TagNameEnd
           /\ \E k \in p..Len(c) :
                 /\ HasAt(c, k, <<"/", ">">>)
                 /\ \A j \in p..(k - 1) : c[j] # ">"

ImgExample == <<"<","i","m","g"," ","s","r","c","=","x","/",">">>

\* the lines of the returned text: split at the separators of the join
RECURSIVE CountMessages(_)
CountMessages(text) ==
    IF text = <<>> THEN 0
    ELSE (IF Head(text) = INFO_PREFIX THEN 1 ELSE 0) + CountMessages(Tail(text))

\* C6 as stated: the flag is true iff there is a match; the text holds one
\* message per match, newline-joined in match order, each with the matched
\* text and the 1-based line (one plus the newlines before the match); the
\* text "<img src=x/>" gives exactly one match, on line 1, with that matched
\* text; and a text without a void element written with a trailing "/>"
\* gives no match.
C6_ScanContractAsStated ==
    fn_pc = "done" =>
        LET content == ReadText(fn_in)
            matches == FindIter(content, 1)
        IN /\ fn_ret[1] = (matches # <<>>)
           /\ CountMessages(fn_ret[2]) = Len(matches)
           /\ fn_ret[2] = Join([k \in 1..Len(matches) |->
                                   <<INFO_PREFIX>>
                                   \o Digits(1 + Count(SubSeq(content, 1, matches[k][1] - 1), NL))
                                   \o <<":", " ">>
                                   \o SubSeq(content, matches[k][1], matches[k][2] - 1)],
                               <<NL>>)
           /\ fn_in = ImgExample =>
                 fn_ret = <<TRUE, <<INFO_PREFIX, "1", ":", " ">> \o ImgExample>>
           /\ ~HasVoidElementWithTrailingSlash(content) => ~fn_ret[1]

\* the part of C6 that does not speak of void elements: flag, one message
\* per match, line numbers, the <img src=x/> example
C6_FlagAndMessages ==
    fn_pc = "done" =>
        LET content == ReadText(fn_in)
            matches == FindIter(content, 1)
        IN /\ fn_ret[1] = (matches # <<>>)
           /\ CountMessages(fn_ret[2]) = Len(matches)
           /\ \A k \in 1..Len(matches) :
                 Count(SubSeq(content, 1, matches[k][1] - 1), NL) + 1 = LineNumber(content, matches[k])
           /\ fn_in = ImgExample =>
                 fn_ret = <<TRUE, <<INFO_PREFIX, "1", ":", " ">> \o ImgExample>>

-----------------------------------------------------------------------------
(* C7 *)

\* the part of C7 about validate_file: errors_found is the OR of the flags
\* of the checks that have run for the file
ErrorsFoundIsOr ==
    /\ pc = "vf_run_vnu" => ~errors_found
    /\ pc \in {"vf_check_slashes", "vf_return"} =>
          (errors_found <=> \E j \in 1..Len(CallsFor(i)) : CallsFor(i)[j].flag)
    /\ \A n \in 1..Len(returned) :
          returned[n].value <=>
              \E j \in 1..Len(CallsFor(returned[n].idx)) : CallsFor(returned[n].idx)[j].flag

InMain == pc \in {"loop", "vf_run_vnu", "vf_check_slashes", "vf_return", "raised"}
              \/ (pc = "exited" /\ SummaryPrinted)

\* C7 as stated: at every point of main, and at the summary, any_errors is
\* true iff a check reported a problem for a file processed so far; and
\* errors_found is true iff one of the two checks of the file reported one.
C7_FlagAsStated ==
    /\ InMain => (any_errors <=> ReportedBefore(i))
    /\ ErrorsFoundIsOr

\* C7 amended: at every point of main, and at the summary, any_errors is
\* true iff, among the files processed so far, a check reported a problem
\* for one or one did not exist; and errors_found is true iff one of the
\* two checks of the file reported a problem.
C7_Flag ==
    /\ InMain => (any_errors <=> (ReportedBefore(i) \/ MissingBefore(i)))
    /\ ErrorsFoundIsOr

\* summary reached with the flag set by a missing file alone, after a file
\* with issues-free checks
C7_Witness ==
    /\ pc = "exited" /\ SummaryPrinted
    /\ any_errors
    /\ ~AnyReported
    /\ Len(returned) = 2

-----------------------------------------------------------------------------
(* C8 *)

\* C8: with no file argument the program prints the usage message and
\* exits with status 1; main is not called: the tool path is not tested
\* and no file is processed.
C8_NoArguments ==
    Len(argv) = 0 =>
        /\ pc \in {"start", "exited"}
        /\ tested = <<>>
        /\ calls = <<>>
        /\ attempted = <<>>
        /\ pc = "exited" =>
              /\ out = <<Printed("usage", "", <<>>)>>
              /\ exit_status = 1

C8_Witness ==
    /\ Len(argv) = 0
    /\ vnu_present
    /\ pc = "exited"
    /\ exit_status = 1

-----------------------------------------------------------------------------
(* C9 *)

-----------------------------------------------------------------------------
(* C10 *)

C10_Names ==
    { <<"a","r","e","a">>, <<"b","a","s","e">>, <<"b","r">>, <<"c","o","l">>,
      <<"e","m","b","e","d">>, <<"h","r">>, <<"i","m","g">>,
      <<"i","n","p","u","t">>, <<"l","i","n","k">>, <<"m","e","t","a">>,
      <<"p","a","r","a","m">>, <<"s","o","u","r","c","e">>,
      <<"t","r","a","c","k">>, <<"w","b","r">> }

\* c[s..e-1] is "<", one of the names, zero or more characters other than
\* ">", then "/>"
HasShape(c, s, e) ==
    /\ c[s] = "<"
    /\ \E name \in C10_Names :
        LET p == s + 1 + Len(name)
        IN /\ HasAt(c, s, <<"<">> \o name)
           /\ p <= e - 2
           /\ e - 1 <= Len(c)
           /\ c[e - 2] = "/"
           /\ c[e - 1] = ">"
           /\ \A j \in p..(e - 3) : c[j] # ">"

\* the substrings the scan reports, as <<start, end>> with end exclusive
Reported(c) ==
    LET matches == FindIter(c, 1) IN { matches[k] : k \in 1..Len(matches) }

\* C10 as stated: a substring is reported iff it is "<", one of the listed
\* void element names (twelve of them), zero or more non-">" characters,
\* then "/>".
C10_ExactlyTheShapeAsStated ==
    fn_pc = "done" =>
        LET c == ReadText(fn_in)
            R == Reported(c)
        IN /\ Len(void_elements) = 12
           /\ \A s \in 1..Len(c) : \A e \in (s + 1)..(Len(c) + 1) :
                 (<<s, e>> \in R) <=> HasShape(c, s, e)

\* C10 amended: the list has fourteen names (area, base, br, col, embed,
\* hr, img, input, link, meta, param, source, track, wbr), and a substring
\* is reported iff it has the shape and does not start inside a match
\* reported before it (matches are found left to right and do not overlap).
C10_LeftmostShapes ==
    fn_pc = "done" =>
        LET c == ReadText(fn_in)
            R == Reported(c)
        IN /\ \A s \in 1..Len(c) : \A e \in (s + 1)..(Len(c) + 1) :
                 (<<s, e>> \in R) <=>
                     /\ HasShape(c, s, e)
                     /\ ~\E m \in R : m[1] < s /\ s < m[2]
           /\ \A m \in R : m[1] \in 1..Len(c) /\ m[2] \in (m[1] + 1)..(Len(c) + 1)
           /\ Cardinality(C10_Names) = 14
           /\ { void_elements[n] : n \in 1..Len(void_elements) } = C10_Names
           /\ Len(void_elements) = 14

\* "<br<br/>": the whole text is reported, the "<br/>" inside it has the
\* shape and is not
C10_Witness ==
    /\ fn_pc = "done"
    /\ fn_in = <<"<","b","r","<","b","r","/",">">>
    /\ Reported(fn_in) = { <<1, 9>> }
    /\ HasShape(fn_in, 4, 9)
    /\ fn_ret[1]

====
